---------------------------- MODULE Spec2Model ----------------------------
(***************************************************************************)
(* Model of resilience.py: the first-match lexer (TOKEN_TYPES, Lexer) and  *)
(* the two recursive-descent parsers (TokenConstraintParser and its        *)
(* subclass TokenPatternParser).                                           *)
(*                                                                         *)
(* A source text is a sequence of one-character strings.  A token is the   *)
(* pair <<kind, lexeme>>.  An AST node is the tagged tuple the code        *)
(* builds: <<"OR", l, r>>, <<"AND", l, r>>, <<"NOT", x>>,                  *)
(* <<"FIELD", name, matcher>>, <<"EXACT", literal>>, <<"SEQ", patterns>>,  *)
(* <<"QUANT", atom, quantifier>>, <<"MENTION", matcher>>,                  *)
(* <<"CAPTURE", name, pattern>>; Python's None is the value None.          *)
(***************************************************************************)
EXTENDS Naturals, Sequences, FiniteSets, TLC

VARIABLES
    text,           \* the source string handed to Lexer(text)
    phase,          \* "start" | "lexed" | "parsing" | "done" | "lex_error" | "parse_error"
    tokens,         \* Lexer.tokens, as the caller can reach it (<<>> before construction)
    current_token,  \* TokenConstraintParser.current_token
    stack,          \* the call stack of the parser's productions, innermost last
    ret,            \* the value the production that returned last handed to its caller
    result,         \* what parse_token_pattern returned
    error           \* the SyntaxError that reached the caller

vars == <<text, phase, tokens, current_token, stack, ret, result, error>>

\* Python's None.
None == <<"None">>

--------------------------------------------------------------------------
(* Character classes of the regular expressions, over the model's alphabet *)

\* \s
Whitespace == {" ", "\t", "\n"}

\* \d
Digits == {"0", "1", "2", "3", "4", "5", "6", "7", "8", "9"}

\* \w
WordChars ==
    {"a", "b", "c", "d", "e", "f", "g", "h", "i", "j", "k", "l", "m",
     "n", "o", "p", "q", "r", "s", "t", "u", "v", "w", "x", "y", "z", "_"}
    \cup Digits

\* The alternatives of the WORD rule, in the order the pattern lists them.
FieldKeywords ==
    << <<"w", "o", "r", "d">>,
       <<"l", "e", "m", "m", "a">>,
       <<"t", "a", "g">>,
       <<"e", "n", "t", "i", "t", "y">>,
       <<"c", "h", "u", "n", "k">>,
       <<"i", "n", "c", "o", "m", "i", "n", "g">>,
       <<"o", "u", "t", "g", "o", "i", "n", "g">>,
       <<"m", "e", "n", "t", "i", "o", "n">> >>

\* The rule names of TOKEN_TYPES in dictionary (insertion) order.
TOKEN_TYPES ==
    <<"WHITESPACE", "LBRACKET", "RBRACKET", "LPAREN", "RPAREN", "AND", "OR",
      "NOT", "EQUALS", "STAR", "PLUS", "QUESTION", "WORD", "STRING", "NUMBER",
      "AT", "COLON", "CAPTURE_START", "CAPTURE_END", "START_ASSERT",
      "END_ASSERT", "LOOKAHEAD_START", "LOOKAHEAD_END">>

--------------------------------------------------------------------------
(* Regular-expression matching at a position (re.match(text, pos)).  Each  *)
(* operator gives the length of the match, 0 when the pattern fails.       *)

\* A literal pattern: lit is a prefix of t at pos (positions count from 1).
LitLen(lit, t, pos) ==
    IF /\ pos + Len(lit) - 1 <= Len(t)
       /\ \A i \in 1..Len(lit) : t[pos + i - 1] = lit[i]
    THEN Len(lit) ELSE 0

\* A greedy run C+ of characters of class C.
RECURSIVE RunLen(_, _, _)
RunLen(C, t, pos) ==
    IF pos <= Len(t) /\ t[pos] \in C THEN 1 + RunLen(C, t, pos + 1) ELSE 0

\* An alternation of literals lit1|lit2|...: the first alternative that matches.
RECURSIVE AltLen(_, _, _, _)
AltLen(alts, i, t, pos) ==
    IF i > Len(alts) THEN 0
    ELSE IF LitLen(alts[i], t, pos) > 0 THEN LitLen(alts[i], t, pos)
    ELSE AltLen(alts, i + 1, t, pos)

\* q.*?q : the quote, the shortest run of characters other than newline, the
\* quote again.
QuotedLen(q, t, pos) ==
    IF pos <= Len(t) /\ t[pos] = q
    THEN LET closers == {j \in (pos + 1)..Len(t) :
                            /\ t[j] = q
                            /\ \A k \in (pos + 1)..(j - 1) : t[k] # "\n"}
         IN  IF closers = {} THEN 0
             ELSE (CHOOSE j \in closers : \A k \in closers : j <= k) - pos + 1
    ELSE 0

\* \".*?\"|\'.*?\'|\w+
StringLen(t, pos) ==
    IF QuotedLen("\"", t, pos) > 0 THEN QuotedLen("\"", t, pos)
    ELSE IF QuotedLen("'", t, pos) > 0 THEN QuotedLen("'", t, pos)
    ELSE RunLen(WordChars, t, pos)

\* Length of the match of a rule's pattern at pos.
MatchLen(token_type, t, pos) ==
    CASE token_type = "WHITESPACE"      -> RunLen(Whitespace, t, pos)
      [] token_type = "LBRACKET"        -> LitLen(<<"[">>, t, pos)
      [] token_type = "RBRACKET"        -> LitLen(<<"]">>, t, pos)
      [] token_type = "LPAREN"          -> LitLen(<<"(">>, t, pos)
      [] token_type = "RPAREN"          -> LitLen(<<")">>, t, pos)
      [] token_type = "AND"             -> LitLen(<<"&">>, t, pos)
      [] token_type = "OR"              -> LitLen(<<"|">>, t, pos)
      [] token_type = "NOT"             -> LitLen(<<"!">>, t, pos)
      [] token_type = "EQUALS"          -> LitLen(<<"=">>, t, pos)
      [] token_type = "STAR"            -> LitLen(<<"*">>, t, pos)
      [] token_type = "PLUS"            -> LitLen(<<"+">>, t, pos)
      [] token_type = "QUESTION"        -> LitLen(<<"?">>, t, pos)
      [] token_type = "WORD"            -> AltLen(FieldKeywords, 1, t, pos)
      [] token_type = "STRING"          -> StringLen(t, pos)
      [] token_type = "NUMBER"          -> RunLen(Digits, t, pos)
      [] token_type = "AT"              -> LitLen(<<"@">>, t, pos)
      [] token_type = "COLON"           -> LitLen(<<":">>, t, pos)
      [] token_type = "CAPTURE_START"   -> LitLen(<<"(", "?", "<">>, t, pos)
      [] token_type = "CAPTURE_END"     -> LitLen(<<")">>, t, pos)
      [] token_type = "START_ASSERT"    -> LitLen(<<"^">>, t, pos)
      [] token_type = "END_ASSERT"      -> LitLen(<<"$">>, t, pos)
      [] token_type = "LOOKAHEAD_START" ->
            AltLen(<< <<"(", "?", "=">>, <<"(", "?", "!">> >>, 1, t, pos)
      [] token_type = "LOOKAHEAD_END"   -> LitLen(<<")">>, t, pos)
      [] OTHER                          -> 0

\* match.group(): the matched substring, as a string.
RECURSIVE Group(_, _, _)
Group(t, pos, n) ==
    IF n = 0 THEN "" ELSE t[pos] \o Group(t, pos + 1, n - 1)

\* The inner for loop of tokenize: the index in the table of the first rule,
\* from rule i on, whose pattern matches at pos; 0 when none does.
RECURSIVE FirstMatch(_, _, _, _)
FirstMatch(table, i, t, pos) ==
    IF i > Len(table) THEN 0
    ELSE IF MatchLen(table[i], t, pos) > 0 THEN i
    ELSE FirstMatch(table, i + 1, t, pos)

\* The while loop of tokenize from position pos with the tokens toks
\* collected so far: where it stops, what self.tokens holds then, and the
\* character of the SyntaxError when it raised.
RECURSIVE tokenize(_, _, _)
tokenize(t, pos, toks) ==
    IF pos > Len(t)
    THEN [raised |-> FALSE, pos |-> pos, tokens |-> toks, char |-> ""]
    ELSE LET i == FirstMatch(TOKEN_TYPES, 1, t, pos)
         IN  IF i = 0
             THEN [raised |-> TRUE, pos |-> pos, tokens |-> toks, char |-> t[pos]]
             ELSE LET n == MatchLen(TOKEN_TYPES[i], t, pos)
                  IN  tokenize(t, pos + n,
                               IF TOKEN_TYPES[i] # "WHITESPACE"
                               THEN Append(toks, <<TOKEN_TYPES[i], Group(t, pos, n)>>)
                               ELSE toks)

--------------------------------------------------------------------------
(* The token cursor.  A cursor c is the pair of the parser's current_token *)
(* and the lexer's remaining tokens.                                       *)

Cursor(cur, toks) == [current_token |-> cur, tokens |-> toks]

\* next_token with pop() for pop(0): it takes the last token.
next_token_pop_last(toks) ==
    IF toks # <<>>
    THEN [token |-> toks[Len(toks)], tokens |-> SubSeq(toks, 1, Len(toks) - 1)]
    ELSE [token |-> None, tokens |-> toks]

\* Lexer.next_token: self.tokens.pop(0) if self.tokens else None.
next_token(toks) ==
    IF toks # <<>> THEN [token |-> Head(toks), tokens |-> Tail(toks)]
    ELSE [token |-> None, tokens |-> toks]

\* self.current_token and self.current_token[0] == token_type
Is(c, token_type) ==
    c.current_token # None /\ c.current_token[1] = token_type

\* self.current_token and self.current_token[0] in token_types
IsIn(c, token_types) ==
    c.current_token # None /\ c.current_token[1] \in token_types

\* TokenConstraintParser.eat: the cursor after it, or the SyntaxError.
eat(c, token_type) ==
    IF Is(c, token_type)
    THEN LET n == next_token(c.tokens)
         IN  [raised |-> FALSE, cursor |-> Cursor(n.token, n.tokens), error |-> None]
    ELSE [raised |-> TRUE, cursor |-> c,
          error |-> <<"Expected", token_type, "but got",
                      IF c.current_token # None THEN c.current_token[1] ELSE "EOF">>]

--------------------------------------------------------------------------
(* The productions.  A frame of the call stack is [fn, pc, local]: the     *)
(* production, the source line it is at (its def line on entry, the line   *)
(* of a call while that call runs), and the one local that is live across  *)
(* its calls.  Each production operator takes its frame f, the cursor c    *)
(* and the value r its callee just returned, runs the code up to the next  *)
(* call, return or raise (at most one eat), and gives the outcome.         *)

Frame(fn, pc, local) == [fn |-> fn, pc |-> pc, local |-> local]

Call(c, f, callee) ==
    [kind |-> "call", cursor |-> c, frame |-> f, callee |-> callee, value |-> None]
Goto(c, f) ==
    [kind |-> "goto", cursor |-> c, frame |-> f, callee |-> "", value |-> None]
Return(c, v) ==
    [kind |-> "return", cursor |-> c, frame |-> None, callee |-> "", value |-> v]
Raise(c, e) ==
    [kind |-> "raise", cursor |-> c, frame |-> None, callee |-> "", value |-> e]

\* self.current_token[1] on None
TypeError == <<"TypeError", "'NoneType' object is not subscriptable">>

\* token_constraint without the test for an empty bracket: it always
\* parses a disjunctive constraint.
token_constraint_required(f, c, r) ==
    CASE f.pc = 80 ->
            LET e == eat(c, "LBRACKET")
            IN  IF e.raised THEN Raise(c, e.error)
                ELSE Call(e.cursor, Frame(f.fn, 85, None), "disjunctive_constraint")
      [] f.pc = 85 -> Goto(c, Frame(f.fn, 86, r))
      [] f.pc = 86 ->
            LET e == eat(c, "RBRACKET")
            IN  IF e.raised THEN Raise(c, e.error) ELSE Return(e.cursor, f.local)

\* token_constraint: local is constraint.
token_constraint(f, c, r) ==
    CASE f.pc = 80 ->
            LET e == eat(c, "LBRACKET")
            IN  IF e.raised THEN Raise(c, e.error)
                ELSE IF e.cursor.current_token # None
                        /\ e.cursor.current_token[1] # "RBRACKET"
                THEN Call(e.cursor, Frame(f.fn, 85, None), "disjunctive_constraint")
                ELSE Goto(e.cursor, Frame(f.fn, 86, None))
      [] f.pc = 85 -> Goto(c, Frame(f.fn, 86, r))
      [] f.pc = 86 ->
            LET e == eat(c, "RBRACKET")
            IN  IF e.raised THEN Raise(c, e.error) ELSE Return(e.cursor, f.local)

\* The while loop shared by the three binary productions: left is the fold
\* so far; on the operator token eat it and call the operand production.
\* disjunctive_constraint: local is left.
disjunctive_constraint(f, c, r) ==
    CASE f.pc = 89 -> Call(c, Frame(f.fn, 91, None), "conjunctive_constraint")
      [] f.pc \in {91, 94} ->
            LET left == IF f.pc = 91 THEN r ELSE <<"OR", f.local, r>>
            IN  IF Is(c, "OR")
                THEN LET e == eat(c, "OR")
                     IN  IF e.raised THEN Raise(c, e.error)
                         ELSE Call(e.cursor, Frame(f.fn, 94, left),
                                   "conjunctive_constraint")
                ELSE Return(c, left)

\* conjunctive_constraint folding with the operands swapped:
\* left = ('AND', right, left).
conjunctive_constraint_swapped(f, c, r) ==
    CASE f.pc = 98 -> Call(c, Frame(f.fn, 100, None), "negated_constraint")
      [] f.pc \in {100, 103} ->
            LET left == IF f.pc = 100 THEN r ELSE <<"AND", r, f.local>>
            IN  IF Is(c, "AND")
                THEN LET e == eat(c, "AND")
                     IN  IF e.raised THEN Raise(c, e.error)
                         ELSE Call(e.cursor, Frame(f.fn, 103, left),
                                   "negated_constraint")
                ELSE Return(c, left)

\* conjunctive_constraint: local is left.
conjunctive_constraint(f, c, r) ==
    CASE f.pc = 98 -> Call(c, Frame(f.fn, 100, None), "negated_constraint")
      [] f.pc \in {100, 103} ->
            LET left == IF f.pc = 100 THEN r ELSE <<"AND", f.local, r>>
            IN  IF Is(c, "AND")
                THEN LET e == eat(c, "AND")
                     IN  IF e.raised THEN Raise(c, e.error)
                         ELSE Call(e.cursor, Frame(f.fn, 103, left),
                                   "negated_constraint")
                ELSE Return(c, left)

\* negated_constraint negating a whole conjunction.
negated_constraint_wide(f, c, r) ==
    CASE f.pc = 107 ->
            IF Is(c, "NOT")
            THEN LET e == eat(c, "NOT")
                 IN  IF e.raised THEN Raise(c, e.error)
                     ELSE Call(e.cursor, Frame(f.fn, 111, None), "conjunctive_constraint")
            ELSE Call(c, Frame(f.fn, 113, None), "atomic_constraint")
      [] f.pc = 111 -> Return(c, <<"NOT", r>>)
      [] f.pc = 113 -> Return(c, r)

negated_constraint(f, c, r) ==
    CASE f.pc = 107 ->
            IF Is(c, "NOT")
            THEN LET e == eat(c, "NOT")
                 IN  IF e.raised THEN Raise(c, e.error)
                     ELSE Call(e.cursor, Frame(f.fn, 111, None), "atomic_constraint")
            ELSE Call(c, Frame(f.fn, 113, None), "atomic_constraint")
      [] f.pc = 111 -> Return(c, <<"NOT", r>>)
      [] f.pc = 113 -> Return(c, r)

atomic_constraint(f, c, r) ==
    CASE f.pc = 115 ->
            IF Is(c, "WORD")
            THEN Call(c, Frame(f.fn, 118, None), "field_constraint")
            ELSE IF Is(c, "LPAREN")
            THEN LET e == eat(c, "LPAREN")
                 IN  IF e.raised THEN Raise(c, e.error)
                     ELSE Call(e.cursor, Frame(f.fn, 121, None),
                               "disjunctive_constraint")
            ELSE Raise(c, <<"Expected FieldConstraint or nested DisjunctiveConstraint">>)
      [] f.pc = 118 -> Return(c, r)
      [] f.pc = 121 ->
            LET e == eat(c, "RPAREN")
            IN  IF e.raised THEN Raise(c, e.error) ELSE Return(e.cursor, r)

\* field_constraint: local is field_name.
field_constraint(f, c, r) ==
    CASE f.pc = 127 ->
            IF c.current_token = None THEN Raise(c, TypeError)
            ELSE LET e == eat(c, "WORD")
                 IN  IF e.raised THEN Raise(c, e.error)
                     ELSE Goto(e.cursor, Frame(f.fn, 131, c.current_token[2]))
      [] f.pc = 131 ->
            LET e == eat(c, "EQUALS")
            IN  IF e.raised THEN Raise(c, e.error)
                ELSE Call(e.cursor, Frame(f.fn, 132, f.local), "string_matcher")
      [] f.pc = 132 -> Return(c, <<"FIELD", f.local, r>>)

string_matcher(f, c, r) ==
    CASE f.pc = 135 ->
            IF Is(c, "STRING")
            THEN LET e == eat(c, "STRING")
                 IN  IF e.raised THEN Raise(c, e.error)
                     ELSE Return(e.cursor, <<"EXACT", c.current_token[2]>>)
            ELSE Raise(c, <<"Expected string">>)

\* disjunctive_token_pattern: local is left.
disjunctive_token_pattern(f, c, r) ==
    CASE f.pc = 149 -> Call(c, Frame(f.fn, 151, None), "concatenated_token_pattern")
      [] f.pc \in {151, 154} ->
            LET left == IF f.pc = 151 THEN r ELSE <<"OR", f.local, r>>
            IN  IF Is(c, "OR")
                THEN LET e == eat(c, "OR")
                     IN  IF e.raised THEN Raise(c, e.error)
                         ELSE Call(e.cursor, Frame(f.fn, 154, left),
                                   "concatenated_token_pattern")
                ELSE Return(c, left)

\* concatenated_token_pattern without the test for a single element.
concatenated_token_pattern_wrap(f, c, r) ==
    CASE f.pc = 158 -> Call(c, Frame(f.fn, 160, <<>>), "quantified_token_pattern")
      [] f.pc \in {160, 162} ->
            LET patterns == Append(f.local, r)
            IN  IF IsIn(c, {"WORD", "LPAREN", "AT", "CAPTURE_START", "LBRACKET"})
                THEN Call(c, Frame(f.fn, 162, patterns), "quantified_token_pattern")
                ELSE Return(c, <<"SEQ", patterns>>)

\* concatenated_token_pattern: local is patterns.
concatenated_token_pattern(f, c, r) ==
    CASE f.pc = 158 -> Call(c, Frame(f.fn, 160, <<>>), "quantified_token_pattern")
      [] f.pc \in {160, 162} ->
            LET patterns == Append(f.local, r)
            IN  IF IsIn(c, {"WORD", "LPAREN", "AT", "CAPTURE_START", "LBRACKET"})
                THEN Call(c, Frame(f.fn, 162, patterns), "quantified_token_pattern")
                ELSE IF Len(patterns) = 1 THEN Return(c, patterns[1])
                ELSE Return(c, <<"SEQ", patterns>>)

\* quantified_token_pattern wrapping the atom whether or not a quantifier
\* follows.
quantified_token_pattern_always(f, c, r) ==
    CASE f.pc = 168 -> Call(c, Frame(f.fn, 170, None), "atomic_token_pattern")
      [] f.pc = 170 ->
            IF IsIn(c, {"STAR", "PLUS", "QUESTION"})
            THEN LET e == eat(c, c.current_token[1])
                 IN  IF e.raised THEN Raise(c, e.error)
                     ELSE Return(e.cursor, <<"QUANT", r, c.current_token[2]>>)
            ELSE Return(c, <<"QUANT", r, "">>)

quantified_token_pattern(f, c, r) ==
    CASE f.pc = 168 -> Call(c, Frame(f.fn, 170, None), "atomic_token_pattern")
      [] f.pc = 170 ->
            IF IsIn(c, {"STAR", "PLUS", "QUESTION"})
            THEN LET e == eat(c, c.current_token[1])
                 IN  IF e.raised THEN Raise(c, e.error)
                     ELSE Return(e.cursor, <<"QUANT", r, c.current_token[2]>>)
            ELSE Return(c, r)

atomic_token_pattern(f, c, r) ==
    CASE f.pc = 177 ->
            IF Is(c, "WORD")
            THEN Call(c, Frame(f.fn, 180, None), "field_constraint")
            ELSE IF Is(c, "LBRACKET")
            THEN Call(c, Frame(f.fn, 182, None), "token_constraint")
            ELSE IF Is(c, "LPAREN")
            THEN LET e == eat(c, "LPAREN")
                 IN  IF e.raised THEN Raise(c, e.error)
                     ELSE Call(e.cursor, Frame(f.fn, 185, None),
                               "disjunctive_token_pattern")
            ELSE IF Is(c, "AT")
            THEN Call(c, Frame(f.fn, 189, None), "mention_token_pattern")
            ELSE IF Is(c, "CAPTURE_START")
            THEN Call(c, Frame(f.fn, 191, None), "capture_token_pattern")
            ELSE Raise(c, <<"Unexpected token",
                            IF c.current_token # None THEN c.current_token[2] ELSE "EOF",
                            "in AtomicTokenPattern">>)
      [] f.pc \in {180, 182, 189, 191} -> Return(c, r)
      [] f.pc = 185 ->
            LET e == eat(c, "RPAREN")
            IN  IF e.raised THEN Raise(c, e.error) ELSE Return(e.cursor, r)

mention_token_pattern(f, c, r) ==
    CASE f.pc = 195 ->
            LET e == eat(c, "AT")
            IN  IF e.raised THEN Raise(c, e.error)
                ELSE IF Is(e.cursor, "STRING")
                THEN Call(e.cursor, Frame(f.fn, 199, None), "string_matcher")
                ELSE Return(e.cursor, <<"MENTION", None>>)
      [] f.pc = 199 -> Return(c, <<"MENTION", r>>)

\* capture_token_pattern: local is capture_name.
capture_token_pattern(f, c, r) ==
    CASE f.pc = 204 ->
            LET e == eat(c, "CAPTURE_START")
            IN  IF e.raised THEN Raise(c, e.error)
                ELSE Goto(e.cursor, Frame(f.fn, 207, None))
      [] f.pc = 207 ->
            IF c.current_token = None THEN Raise(c, TypeError)
            ELSE LET e == eat(c, "STRING")
                 IN  IF e.raised THEN Raise(c, e.error)
                     ELSE Goto(e.cursor, Frame(f.fn, 209, c.current_token[2]))
      [] f.pc = 209 ->
            LET e == eat(c, "CAPTURE_END")
            IN  IF e.raised THEN Raise(c, e.error)
                ELSE Call(e.cursor, Frame(f.fn, 210, f.local),
                          "disjunctive_token_pattern")
      [] f.pc = 210 -> Return(c, <<"CAPTURE", f.local, r>>)

\* The line a production is entered at.
Entry(fn) ==
    CASE fn = "token_constraint"           -> 80
      [] fn = "disjunctive_constraint"     -> 89
      [] fn = "conjunctive_constraint"     -> 98
      [] fn = "negated_constraint"         -> 107
      [] fn = "atomic_constraint"          -> 115
      [] fn = "field_constraint"           -> 127
      [] fn = "string_matcher"             -> 135
      [] fn = "disjunctive_token_pattern"  -> 149
      [] fn = "concatenated_token_pattern" -> 158
      [] fn = "quantified_token_pattern"   -> 168
      [] fn = "atomic_token_pattern"       -> 177
      [] fn = "mention_token_pattern"      -> 195
      [] fn = "capture_token_pattern"      -> 204

\* Method dispatch: the production a frame runs.
Run(f, c, r) ==
    CASE f.fn = "token_constraint"           -> token_constraint(f, c, r)
      [] f.fn = "disjunctive_constraint"     -> disjunctive_constraint(f, c, r)
      [] f.fn = "conjunctive_constraint"     -> conjunctive_constraint(f, c, r)
      [] f.fn = "negated_constraint"         -> negated_constraint(f, c, r)
      [] f.fn = "atomic_constraint"          -> atomic_constraint(f, c, r)
      [] f.fn = "field_constraint"           -> field_constraint(f, c, r)
      [] f.fn = "string_matcher"             -> string_matcher(f, c, r)
      [] f.fn = "disjunctive_token_pattern"  -> disjunctive_token_pattern(f, c, r)
      [] f.fn = "concatenated_token_pattern" -> concatenated_token_pattern(f, c, r)
      [] f.fn = "quantified_token_pattern"   -> quantified_token_pattern(f, c, r)
      [] f.fn = "atomic_token_pattern"       -> atomic_token_pattern(f, c, r)
      [] f.fn = "mention_token_pattern"      -> mention_token_pattern(f, c, r)
      [] f.fn = "capture_token_pattern"      -> capture_token_pattern(f, c, r)

--------------------------------------------------------------------------
(* The source texts the model is run on.                                   *)

\* Bounds of the input families.
MaxAny == 2
MaxCore == 4
MaxChain == 3
MaxPat == 3
MaxCtx == 2
MaxFlat == 10

RECURSIVE Flatten(_)
Flatten(ss) == IF ss = <<>> THEN <<>> ELSE Head(ss) \o Flatten(Tail(ss))

SeqsUpTo(S, n) == UNION {[1..k -> S] : k \in 0..n}

\* One piece of text for every lexical form: every rule of the table, an
\* unknown character, an unclosed quote, a word that starts with a keyword.
FullChunks ==
    { <<"[">>,
      <<"]">>,
      <<"(">>,
      <<")">>,
      <<"&">>,
      <<"|">>,
      <<"!">>,
      <<"=">>,
      <<"*">>,
      <<"+">>,
      <<"?">>,
      <<"t", "a", "g">>,
      <<"x">>,
      <<"t", "a", "g", "g", "e", "d">>,
      <<"@">>,
      <<":">>,
      <<"<">>,
      <<"^">>,
      <<"$">>,
      <<"%">>,
      <<" ">>,
      <<"\"">>,
      <<"1">>,
      <<"(", "?", "<">>,
      <<"(", "?", "=">> }

\* The pieces well-formed and malformed patterns are made of.
CoreChunks ==
    { <<"[">>,
      <<"]">>,
      <<"(">>,
      <<")">>,
      <<"t", "a", "g", "=", "x">>,
      <<"|">>,
      <<"*">>,
      <<"@">> }

\* Operands and operators of a chain inside brackets.
ConstraintOperands ==
    { <<"t", "a", "g", "=", "x">>,
      <<"!", "w", "o", "r", "d", "=", "y">>,
      <<"(", "t", "a", "g", "=", "x", "|", "w", "o", "r", "d", "=", "y", ")">> }
ConstraintOperators == { <<"&">>, <<"|">> }

\* Operands and connectives (alternation, juxtaposition) of a pattern chain.
PatternOperands ==
    { <<"t", "a", "g", "=", "x">>,
      <<"[", "]", "*">>,
      <<"@", "p">>,
      <<"(", "w", "o", "r", "d", "=", "y", " ", "[", "]", ")">> }
PatternConnectives == { <<"|">>, <<" ">> }

\* x1 o1 x2 o2 ... xn
RECURSIVE Chain(_, _)
Chain(xs, os) ==
    IF Len(xs) = 1 THEN xs[1]
    ELSE xs[1] \o os[1] \o Chain(Tail(xs), Tail(os))

Chains(X, O, n) ==
    UNION {{Chain(xs, os) : xs \in [1..k -> X], os \in [1..(k - 1) -> O]} : k \in 1..n}

\* The capture and lookahead openers, and what may follow one.
Openers == { <<"(", "?", "<">>, <<"(", "?", "=">>, <<"(", "?", "!">> }
OpenerTails ==
    { <<>>,
      <<"t", "a", "g", "=", "x", ")">>,
      <<"n", ">", "t", "a", "g", "=", "x", ")">> }

\* x o x o ... x, n operands.
RECURSIVE Flat(_, _, _)
Flat(x, o, n) == IF n = 1 THEN x ELSE x \o o \o Flat(x, o, n - 1)

FlatOperand == <<"t", "a", "g", "=", "x">>

Inputs ==
    {Flatten(cs) : cs \in SeqsUpTo(FullChunks, MaxAny)}
    \cup {Flatten(cs) : cs \in SeqsUpTo(CoreChunks, MaxCore)}
    \cup {<<"[">> \o b \o <<"]">> :
            b \in Chains(ConstraintOperands, ConstraintOperators, MaxChain)}
    \cup Chains(PatternOperands, PatternConnectives, MaxPat)
    \cup {Flatten(cs) \o o \o t :
            cs \in SeqsUpTo(CoreChunks, MaxCtx), o \in Openers, t \in OpenerTails}
    \cup {Flat(FlatOperand, <<"|">>, n) : n \in 1..MaxFlat}
    \cup {<<"[">> \o Flat(FlatOperand, o, n) \o <<"]">> :
            o \in ConstraintOperators, n \in 1..MaxFlat}

--------------------------------------------------------------------------
(* The program: lexer = Lexer(text); parser = TokenPatternParser(lexer);   *)
(* result = parser.parse_token_pattern().                                  *)

Init ==
    /\ text \in Inputs
    /\ phase = "start"
    /\ tokens = <<>>
    /\ current_token = None
    /\ stack = <<>>
    /\ ret = None
    /\ result = None
    /\ error = None

\* Lexer.__init__ handing the caller the tokens collected before the
\* unknown character.
Lexer_init_partial ==
    /\ phase = "start"
    /\ LET t == tokenize(text, 1, <<>>)
       IN  /\ phase' = IF t.raised THEN "lex_error" ELSE "lexed"
           /\ error' = IF t.raised THEN <<"Unknown character", t.char>> ELSE error
           /\ tokens' = t.tokens
    /\ UNCHANGED <<text, current_token, stack, ret, result>>

\* Lexer.__init__: tokenize the text; when tokenize raises, no Lexer comes
\* into being and the caller holds only the SyntaxError.
Lexer_init ==
    /\ phase = "start"
    /\ LET t == tokenize(text, 1, <<>>)
       IN  IF t.raised
           THEN /\ phase' = "lex_error"
                /\ error' = <<"Unknown character", t.char>>
                /\ tokens' = <<>>
           ELSE /\ phase' = "lexed"
                /\ error' = error
                /\ tokens' = t.tokens
    /\ UNCHANGED <<text, current_token, stack, ret, result>>

\* TokenConstraintParser.__init__: current_token = lexer.next_token().
TokenConstraintParser_init ==
    /\ phase = "lexed"
    /\ LET n == next_token(tokens)
       IN  /\ current_token' = n.token
           /\ tokens' = n.tokens
    /\ phase' = "ready"
    /\ UNCHANGED <<text, stack, ret, result, error>>

\* parse_token_pattern is called: it calls disjunctive_token_pattern.
parse_token_pattern ==
    /\ phase = "ready"
    /\ stack' = <<Frame("disjunctive_token_pattern",
                        Entry("disjunctive_token_pattern"), None)>>
    /\ phase' = "parsing"
    /\ UNCHANGED <<text, tokens, current_token, ret, result, error>>

Top == stack[Len(stack)]
Below == SubSeq(stack, 1, Len(stack) - 1)

\* What the innermost production does next.
Outcome == Run(Top, Cursor(current_token, tokens), ret)

\* The innermost production calls another production.
StepCall ==
    /\ phase = "parsing"
    /\ Outcome.kind = "call"
    /\ current_token' = Outcome.cursor.current_token
    /\ tokens' = Outcome.cursor.tokens
    /\ stack' = Below \o <<Outcome.frame,
                           Frame(Outcome.callee, Entry(Outcome.callee), None)>>
    /\ ret' = None
    /\ UNCHANGED <<text, phase, result, error>>

\* The innermost production goes on to its next statement.
StepGoto ==
    /\ phase = "parsing"
    /\ Outcome.kind = "goto"
    /\ current_token' = Outcome.cursor.current_token
    /\ tokens' = Outcome.cursor.tokens
    /\ stack' = Below \o <<Outcome.frame>>
    /\ ret' = None
    /\ UNCHANGED <<text, phase, result, error>>

\* The innermost production returns; when it is the outermost,
\* parse_token_pattern returns its value to the caller.
StepReturn ==
    /\ phase = "parsing"
    /\ Outcome.kind = "return"
    /\ current_token' = Outcome.cursor.current_token
    /\ tokens' = Outcome.cursor.tokens
    /\ stack' = Below
    /\ ret' = Outcome.value
    /\ IF Below = <<>>
       THEN phase' = "done" /\ result' = Outcome.value
       ELSE UNCHANGED <<phase, result>>
    /\ UNCHANGED <<text, error>>

\* The innermost production raises: nothing catches it, the parse is over.
StepRaise ==
    /\ phase = "parsing"
    /\ Outcome.kind = "raise"
    /\ stack' = <<>>
    /\ error' = Outcome.value
    /\ phase' = "parse_error"
    /\ UNCHANGED <<text, tokens, current_token, ret, result>>

Next ==
    \/ Lexer_init
    \/ TokenConstraintParser_init
    \/ parse_token_pattern
    \/ StepCall
    \/ StepGoto
    \/ StepReturn
    \/ StepRaise

Spec == Init /\ [][Next]_vars

--------------------------------------------------------------------------
(* What the properties are stated in terms of.                             *)

\* The outcome of lexing the text.
Lexed == tokenize(text, 1, <<>>)

\* The tokens not yet consumed: the current one and those left in the lexer.
Remaining == IF current_token = None THEN tokens ELSE <<current_token>> \o tokens

\* The tokens of the lexed sequence the parser has consumed.
Consumed ==
    LET toks == Lexed.tokens IN SubSeq(toks, 1, Len(toks) - Len(Remaining))

\* How many places of the token sequence toks hold a token of a kind in a
\* directly followed by one of a kind in b.
Adjacent(toks, a, b) ==
    Cardinality({i \in 1..(Len(toks) - 1) : toks[i][1] \in a /\ toks[i + 1][1] \in b})

\* The child nodes of an AST node, left to right.
Children(n) ==
    CASE n[1] \in {"OR", "AND"} -> <<n[2], n[3]>>
      [] n[1] \in {"NOT", "QUANT"} -> <<n[2]>>
      [] n[1] = "SEQ" -> n[2]
      [] n[1] = "FIELD" -> <<n[3]>>
      [] n[1] = "CAPTURE" -> <<n[3]>>
      [] n[1] = "MENTION" -> IF n[2] = None THEN <<>> ELSE <<n[2]>>
      [] OTHER -> <<>>

\* Every node of the tree rooted at n, in preorder.
RECURSIVE SubNodes(_), SubNodesAll(_)
SubNodes(n) == <<n>> \o SubNodesAll(Children(n))
SubNodesAll(ns) ==
    IF Len(ns) = 0 THEN <<>> ELSE SubNodes(ns[1]) \o SubNodesAll(Tail(ns))

\* How many nodes of the tree rooted at n satisfy P.
Count(n, P(_)) ==
    LET all == SubNodes(n) IN Cardinality({i \in 1..Len(all) : P(all[i])})

\* The height of the tree rooted at n, a leaf having height 1.
RECURSIVE Depth(_), MaxDepth(_)
Depth(n) == 1 + MaxDepth(Children(n))
MaxDepth(ns) ==
    IF Len(ns) = 0 THEN 0
    ELSE LET d == Depth(ns[1])
             m == MaxDepth(Tail(ns))
         IN  IF d > m THEN d ELSE m

\* The deepest nesting of brackets and parentheses in a token sequence:
\* open is the number of groups open before token i.
RECURSIVE NestingDepth(_, _, _)
NestingDepth(toks, i, open) ==
    IF i > Len(toks) THEN 0
    ELSE LET now == IF toks[i][1] \in {"LBRACKET", "LPAREN"} THEN open + 1
                    ELSE IF toks[i][1] \in {"RBRACKET", "RPAREN"} /\ open > 0
                    THEN open - 1
                    ELSE open
             rest == NestingDepth(toks, i + 1, now)
         IN  IF now > rest THEN now ELSE rest

\* What a tree says, read left to right: field names, literals, quantifiers,
\* "@" for a mention and "[]" for an empty bracket.
RECURSIVE Yield(_), YieldAll(_)
Yield(n) ==
    CASE n = None -> <<"[]">>
      [] n[1] = "EXACT" -> <<n[2]>>
      [] n[1] = "FIELD" -> <<n[2]>> \o Yield(n[3])
      [] n[1] = "MENTION" -> <<"@">> \o YieldAll(Children(n))
      [] n[1] = "QUANT" -> Yield(n[2]) \o <<n[3]>>
      [] n[1] = "CAPTURE" -> <<n[2]>> \o Yield(n[3])
      [] OTHER -> YieldAll(Children(n))
YieldAll(ns) ==
    IF Len(ns) = 0 THEN <<>> ELSE Yield(ns[1]) \o YieldAll(Tail(ns))

\* The same reading of a token sequence, from token i on.
RECURSIVE TokenYield(_, _)
TokenYield(toks, i) ==
    IF i > Len(toks) THEN <<>>
    ELSE (CASE toks[i][1] \in {"WORD", "STRING", "STAR", "PLUS", "QUESTION"} ->
                    <<toks[i][2]>>
            [] toks[i][1] = "AT" -> <<"@">>
            [] /\ toks[i][1] = "LBRACKET"
               /\ i < Len(toks)
               /\ toks[i + 1][1] = "RBRACKET" -> <<"[]">>
            [] OTHER -> <<>>)
         \o TokenYield(toks, i + 1)

\* t occurs in the text.
Occurs(t) == \E pos \in 1..Len(text) : LitLen(t, text, pos) > 0

FieldTagX == <<"FIELD", "tag", <<"EXACT", "x">>>>
FieldWordY == <<"FIELD", "word", <<"EXACT", "y">>>>

--------------------------------------------------------------------------
(* The properties.                                                         *)

\* C1: whenever parse_token_pattern returns an AST the token stream is fully
\* consumed: current_token is None and lexer.tokens is empty.
C1_FullyConsumed ==
    phase = "done" => current_token = None /\ tokens = <<>>

IsNone(n) == n = None

RightNestedOr(n) == n[1] = "OR" /\ n[3][1] = "OR"
RightNestedAnd(n) == n[1] = "AND" /\ n[3][1] = "AND"

\* C3: chains of one binary operator fold to the left: the right child of an
\* And (Or) node is itself an And (Or) node only where the operand after the
\* operator token is a parenthesised or bracketed group of its own.
C3_LeftAssociative ==
    phase = "done" =>
        LET used == Consumed
        IN  /\ Count(result, RightNestedAnd) <= Adjacent(used, {"AND"}, {"LPAREN"})
            /\ Count(result, RightNestedOr)
                 <= Adjacent(used, {"OR"}, {"LPAREN", "LBRACKET"})

C3_Witness ==
    /\ phase = "done"
    /\ result = <<"AND", <<"AND", FieldTagX, <<"NOT", FieldWordY>>>>, FieldTagX>>

WideNot(n) == n[1] = "NOT" /\ n[2][1] # "FIELD"
IsNot(n) == n[1] = "NOT"

\* C4: the operand of a Not node is one atomic constraint: a Field node,
\* or something else only where "(" directly follows the "!"; and there is
\* one Not node for each "!" consumed.
C4_NegationBindsTightest ==
    phase = "done" =>
        LET used == Consumed
        IN  /\ Count(result, WideNot) <= Adjacent(used, {"NOT"}, {"LPAREN"})
            /\ Count(result, IsNot)
                 = Cardinality({i \in 1..Len(used) : used[i][1] = "NOT"})

C4_Witness ==
    /\ phase = "done"
    /\ result \in { <<"AND", <<"NOT", FieldWordY>>, FieldTagX>>,
                    <<"OR", <<"NOT", FieldWordY>>, FieldTagX>> }

ShortSeq(n) == n[1] = "SEQ" /\ Len(n[2]) < 2

\* C5: when concatenated_token_pattern returns, having parsed the elements
\* p1..pk (those its calls of quantified_token_pattern returned, in order),
\* it returns p1 itself when k = 1 and <<"SEQ", <<p1, ..., pk>>>> when
\* k >= 2; so no returned tree holds a Sequence of fewer than two entries,
\* and a returned tree reads in the order of the source.
C5_SequenceIffSeveral ==
    /\ [](phase = "done" =>
            /\ Count(result, ShortSeq) = 0
            /\ Yield(result) = TokenYield(Consumed, 1))
    /\ [][ /\ phase = "parsing"
           /\ Top.fn = "concatenated_token_pattern"
           /\ phase' # "parse_error"
           /\ Len(stack') < Len(stack)
           => LET parsed == Append(Top.local, ret)
              IN  IF Len(parsed) = 1 THEN ret' = parsed[1]
                  ELSE /\ ret'[1] = "SEQ"
                       /\ Len(ret'[2]) = Len(parsed)
                       /\ \A i \in 1..Len(parsed) : ret'[2][i] = parsed[i] ]_vars

C5_Witness ==
    /\ phase = "done"
    /\ result = <<"SEQ", <<FieldTagX, <<"MENTION", <<"EXACT", "p">>>>,
                           <<"QUANT", None, "*">>>>>>

IsCapture(n) == n[1] = "CAPTURE"

\* C7: no capture or lookahead token is emitted, capture_token_pattern is
\* never entered, no returned tree holds a Capture node, and every text
\* that uses the capture opener or a lookahead opener is rejected.
C7_CaptureUnreachable ==
    /\ phase \in {"lexed", "ready"} =>
          \A i \in 1..Len(Remaining) :
              Remaining[i][1] \notin
                  {"CAPTURE_START", "LOOKAHEAD_START", "CAPTURE_END", "LOOKAHEAD_END"}
    /\ \A i \in 1..Len(stack) : stack[i].fn # "capture_token_pattern"
    /\ phase = "done" => Count(result, IsCapture) = 0
    /\ (\E o \in Openers : Occurs(o)) => phase # "done"

\* C8: the cursor only moves forward: every change of the cursor makes the
\* next unconsumed token the current one (None at the end of input), so
\* that what is left to consume, from the parser's construction to the end
\* of the parse, is a suffix of the lexed sequence.
C8_CursorOnlyAdvances ==
    /\ [](phase \in {"ready", "done", "parse_error"} =>
            /\ current_token = None => tokens = <<>>
            /\ LET toks == Lexed.tokens
                   left == Remaining
               IN  /\ Len(left) <= Len(toks)
                   /\ left = SubSeq(toks, Len(toks) - Len(left) + 1, Len(toks)))
    /\ [][ <<current_token, tokens>>' # <<current_token, tokens>> /\ phase # "start"
           => \/ /\ tokens # <<>>
                 /\ current_token' = Head(tokens)
                 /\ tokens' = Tail(tokens)
              \/ /\ tokens = <<>>
                 /\ current_token' = None
                 /\ tokens' = <<>> ]_vars

C8_Witness ==
    phase = "done" /\ Len(Consumed) >= 5 /\ current_token # None /\ tokens # <<>>

\* The levels of the grammar that build a node.
NodeLevels == <<"OR", "SEQ", "QUANT", "OR", "AND", "NOT", "FIELD", "EXACT">>

\* C9 as stated: the depth of a returned tree is bounded by the nesting
\* depth of brackets and parentheses: at most one node per level of the
\* grammar for the text outside any group and for each level of nesting.
C9_DepthBoundedByNesting ==
    phase = "done" =>
        Depth(result) <= Len(NodeLevels) * (NestingDepth(Lexed.tokens, 1, 0) + 1)

\* C9 as amended: the depth of a returned tree is bounded by the number of
\* tokens consumed, and an unparenthesised chain of n field constraints
\* joined by one operator yields a tree of depth n + 1.
C9_DepthBoundedByTokens ==
    phase = "done" =>
        /\ Depth(result) <= Len(Consumed)
        /\ \A n \in 1..MaxFlat :
              (\/ text = Flat(FlatOperand, <<"|">>, n)
               \/ \E o \in ConstraintOperators :
                     text = <<"[">> \o Flat(FlatOperand, o, n) \o <<"]">>)
              => Depth(result) = n + 1

C9_Witness ==
    /\ phase = "done"
    /\ Depth(result) > Len(NodeLevels) * (NestingDepth(Lexed.tokens, 1, 0) + 1)

\* C10: a bare word that is not a field keyword is lexed as one STRING
\* token whose lexeme is the whole word.
C10_BareWordIsOneString ==
    /\ phase = "lexed"
    /\ text # <<>>
    /\ \A i \in 1..Len(text) : text[i] \in WordChars
    /\ \A k \in 1..Len(FieldKeywords) : text # FieldKeywords[k]
    => tokens = << <<"STRING", Group(text, 1, Len(text))>> >>

==========================================================================
